---- MODULE Spec2Model ----
(***************************************************************************)
(* Model of dashboard.py: load_data (forward fill, datetime assembly,      *)
(* season binning), calculate_simple_aqi, classify_aqi, the per-day batch  *)
(* scoring of show_yearly_trends and the page dispatch of main.            *)
(*                                                                         *)
(* Floating point values are modelled as exact rationals n/d extended with *)
(* NaN and the two infinities; comparisons follow IEEE 754 (every          *)
(* comparison with NaN is false).                                          *)
(***************************************************************************)
EXTENDS Integers, Sequences, FiniteSets, TLC

VARIABLES
    pc,             \* position of the running function
    selected_page,  \* main: st.sidebar.radio choice
    csv,            \* the CSV file read by load_data (or NoFile)
    tiantan_df,     \* load_data: the frame under construction
    data,           \* main: the frame returned by load_data
    calls,          \* main: functions called so far, in order
    shown,          \* main: st.error / st.info messages displayed
    exc,            \* exception in flight or last raised ("none" if none)
    row,            \* calculate_simple_aqi: the daily aggregate
    who_limits,     \* calculate_simple_aqi: the limits table
    result,         \* calculate_simple_aqi: outcome for row
    base,           \* outcome for the aggregate row was raised from
    aqi,            \* classify_aqi: its argument
    category,       \* classify_aqi: its return value
    daily_data,     \* show_yearly_trends: the per-day rows
    idx,            \* DataFrame.apply: next row to score
    acc,            \* DataFrame.apply: results collected so far
    AQI,            \* daily_data['AQI'] (NoColumn until assigned)
    AQI_Category,   \* daily_data['AQI_Category'] (NoColumn until assigned)
    exceeding_days  \* show_yearly_trends: per pollutant, the days counted
                    \* as exceeding its limit

vars == <<pc, selected_page, csv, tiantan_df, data, calls, shown, exc,
          row, who_limits, result, base, aqi, category,
          daily_data, idx, acc, AQI, AQI_Category, exceeding_days>>

----------------------------------------------------------------------------
(* Bounds of the model *)

\* concentrations are 0, 25, ..., MaxConc * 25
MaxConc == 3
\* classify_aqi arguments are the multiples of 1/Resolution
Resolution == 10
\* largest classify_aqi argument, in whole units
MaxAqi == 5
\* rows (hours of one day) in the CSV file
MaxRows == 3
\* month column values are 0..MaxMonth and one three digit month
MaxMonth == 13
\* days in a scored batch
MaxDays == 2

----------------------------------------------------------------------------
(* float64 values *)

Num(n, d) == [k |-> "num", n |-> n, d |-> d]
NaN == [k |-> "nan", n |-> 0, d |-> 1]
PosInf == [k |-> "inf", n |-> 1, d |-> 1]
NegInf == [k |-> "inf", n |-> -1, d |-> 1]

IsNaN(x) == x.k = "nan"
IsNum(x) == x.k = "num"

\* x > y on float64
Gt(x, y) ==
    IF IsNaN(x) \/ IsNaN(y) THEN FALSE
    ELSE IF x.k = "inf" THEN x.n > 0 /\ ~(y.k = "inf" /\ y.n > 0)
    ELSE IF y.k = "inf" THEN y.n < 0
    ELSE x.n * y.d > y.n * x.d

\* x <= y on float64
Le(x, y) ==
    IF IsNaN(x) \/ IsNaN(y) THEN FALSE
    ELSE ~Gt(x, y)

\* x == y on float64
Eq(x, y) == Le(x, y) /\ Le(y, x)

\* numpy.float64 / int: division by zero gives inf or nan, never an exception
Div(x, lim) ==
    IF IsNaN(x) THEN NaN
    ELSE IF x.k = "inf" THEN
        (IF lim >= 0 THEN x ELSE [x EXCEPT !.n = -x.n])
    ELSE IF lim > 0 THEN Num(x.n, x.d * lim)
    ELSE IF lim < 0 THEN Num(-x.n, x.d * (-lim))
    ELSE IF x.n > 0 THEN PosInf
    ELSE IF x.n < 0 THEN NegInf
    ELSE NaN

\* outcome of a call: a returned value or a raised exception
Return(v) == [exc |-> "none", val |-> v]
Raise(e) == [exc |-> e, val |-> NaN]
NotCalled == [exc |-> "notcalled", val |-> NaN]

----------------------------------------------------------------------------
(* classify_aqi *)

\* the comparison written < instead of <=
ClassifyStrict(a) ==
    IF Gt(Num(1, 1), a) THEN "Good"
    ELSE IF Gt(Num(2, 1), a) THEN "Moderate"
    ELSE IF Gt(Num(3, 1), a) THEN "Unhealthy for Sensitive Groups"
    ELSE IF Gt(Num(4, 1), a) THEN "Unhealthy"
    ELSE "Very Unhealthy"

classify_aqi(a) ==
    IF Le(a, Num(1, 1)) THEN "Good"
    ELSE IF Le(a, Num(2, 1)) THEN "Moderate"
    ELSE IF Le(a, Num(3, 1)) THEN "Unhealthy for Sensitive Groups"
    ELSE IF Le(a, Num(4, 1)) THEN "Unhealthy"
    ELSE "Very Unhealthy"

Categories == {"Good", "Moderate", "Unhealthy for Sensitive Groups",
               "Unhealthy", "Very Unhealthy"}

----------------------------------------------------------------------------
(* calculate_simple_aqi *)

\* the keys of who_limits in main
LimitKeys == {"PM2.5", "PM10", "NO2", "SO2", "O3"}
\* the pollutants calculate_simple_aqi reads
Covered == {"PM2.5", "PM10", "NO2"}

\* who_limits as main defines it
WhoLimits ==
    [p \in LimitKeys |->
        CASE p = "PM2.5" -> 25
          [] p = "PM10" -> 50
          [] p = "NO2" -> 40
          [] p = "SO2" -> 20
          [] p = "O3" -> 100]

\* Python's max(a, b, c): keeps the first argument unless a later one
\* compares greater, so a NaN in first place wins and a later NaN is skipped
PyMax3(a, b, c) ==
    LET m == IF Gt(b, a) THEN b ELSE a
    IN  IF Gt(c, m) THEN c ELSE m

\* row[p] / who_limits[p] is evaluated only when both subscripts succeed
HasKey(r, lim, p) == p \in DOMAIN r /\ p \in DOMAIN lim

\* the maximum taken over two of the three ratios
AqiDropNO2(r, lim) ==
    IF ~HasKey(r, lim, "PM2.5") \/ ~HasKey(r, lim, "PM10")
          \/ ~HasKey(r, lim, "NO2")
    THEN Raise("KeyError")
    ELSE LET pm25_aqi == Div(r["PM2.5"], lim["PM2.5"])
             pm10_aqi == Div(r["PM10"], lim["PM10"])
         IN  Return(PyMax3(pm25_aqi, pm10_aqi, pm10_aqi))

\* int / numpy.float64, the operands of the ratio swapped
DivInto(lim, x) ==
    IF IsNaN(x) THEN NaN
    ELSE IF x.k = "inf" THEN Num(0, 1)
    ELSE IF x.n > 0 THEN Num(lim * x.d, x.n)
    ELSE IF x.n < 0 THEN Num(-(lim * x.d), -x.n)
    ELSE IF lim > 0 THEN PosInf
    ELSE IF lim < 0 THEN NegInf
    ELSE NaN

\* who_limits[p] / row[p] written for row[p] / who_limits[p]
AqiSwapped(r, lim) ==
    IF ~HasKey(r, lim, "PM2.5") \/ ~HasKey(r, lim, "PM10")
          \/ ~HasKey(r, lim, "NO2")
    THEN Raise("KeyError")
    ELSE LET pm25_aqi == DivInto(lim["PM2.5"], r["PM2.5"])
             pm10_aqi == DivInto(lim["PM10"], r["PM10"])
             no2_aqi == DivInto(lim["NO2"], r["NO2"])
         IN  Return(PyMax3(pm25_aqi, pm10_aqi, no2_aqi))

\* row.get(p, 0) written for row[p]: an absent column reads as zero
AqiGetDefault(r, lim) ==
    IF \E p \in Covered : p \notin DOMAIN lim
    THEN Raise("KeyError")
    ELSE LET get(p) == IF p \in DOMAIN r THEN r[p] ELSE Num(0, 1)
             pm25_aqi == Div(get("PM2.5"), lim["PM2.5"])
             pm10_aqi == Div(get("PM10"), lim["PM10"])
             no2_aqi == Div(get("NO2"), lim["NO2"])
         IN  Return(PyMax3(pm25_aqi, pm10_aqi, no2_aqi))

calculate_simple_aqi(r, lim) ==
    IF ~HasKey(r, lim, "PM2.5") \/ ~HasKey(r, lim, "PM10")
          \/ ~HasKey(r, lim, "NO2")
    THEN Raise("KeyError")
    ELSE LET pm25_aqi == Div(r["PM2.5"], lim["PM2.5"])
             pm10_aqi == Div(r["PM10"], lim["PM10"])
             no2_aqi == Div(r["NO2"], lim["NO2"])
         IN  Return(PyMax3(pm25_aqi, pm10_aqi, no2_aqi))

----------------------------------------------------------------------------
(* Values the variables hold while their function is not running *)

NoColumns == [c \in {} |-> <<>>]
NoFile == [exists |-> FALSE, cols |-> NoColumns]
NoFrame == [exists |-> FALSE, cols |-> NoColumns]
NoRow == [p \in {} |-> NaN]
NoColumn == [assigned |-> FALSE, vals |-> <<>>]

IdleMain ==
    /\ selected_page = "none" /\ csv = NoFile /\ tiantan_df = NoFrame
    /\ data = NoFrame /\ calls = <<>> /\ shown = <<>>
IdleScore == row = NoRow /\ result = NotCalled /\ base = NotCalled
IdleClassify == aqi = NaN /\ category = "none"
NoCounts == [p \in {} |-> {}]

IdleBatch ==
    /\ exceeding_days = NoCounts
    /\ daily_data = <<>> /\ idx = 0 /\ acc = <<>>
    /\ AQI = NoColumn /\ AQI_Category = NoColumn

mainVars == <<selected_page, csv, tiantan_df, data, calls, shown>>
scoreVars == <<row, result, base>>
classifyVars == <<aqi, category>>
batchVars == <<daily_data, idx, acc, AQI, AQI_Category, exceeding_days>>

----------------------------------------------------------------------------
(* classify_aqi applied to one value *)

AqiVals ==
    {Num(n, Resolution) : n \in (-Resolution)..(MaxAqi * Resolution)}
        \cup {NaN, PosInf, NegInf}

InitClassify ==
    /\ pc = "classify" /\ exc = "none" /\ who_limits = WhoLimits
    /\ IdleMain /\ IdleScore /\ IdleBatch
    /\ aqi \in AqiVals
    /\ category = "none"

Classify ==
    /\ pc = "classify"
    /\ category' = classify_aqi(aqi)
    /\ pc' = "classified"
    /\ UNCHANGED <<mainVars, scoreVars, batchVars, aqi, exc, who_limits>>

NextClassify == Classify

SpecClassify == InitClassify /\ [][NextClassify]_vars

----------------------------------------------------------------------------
(* calculate_simple_aqi applied to one daily aggregate *)

Conc == {Num(c * 25, 1) : c \in 0..MaxConc} \cup {NaN}
\* the pollutants calculate_simple_aqi does not read take the extreme values
ConcOf(p) == IF p \in Covered THEN Conc ELSE {Num(0, 1), Num(MaxConc * 25, 1)}

\* row of daily_data: all limit columns, or one of them absent
RowColumns == {LimitKeys} \cup {LimitKeys \ {p} : p \in LimitKeys}
Rows ==
    UNION {{r \in [cols -> Conc] : \A p \in cols : r[p] \in ConcOf(p)}
             : cols \in RowColumns}

\* the limits of main, or that table with one entry zeroed, negated or absent
LimitTables ==
    {WhoLimits}
        \cup {[WhoLimits EXCEPT ![p] = 0] : p \in LimitKeys}
        \cup {[WhoLimits EXCEPT ![p] = -WhoLimits[p]] : p \in LimitKeys}
        \cup {[q \in LimitKeys \ {p} |-> WhoLimits[q]] : p \in LimitKeys}

InitScore ==
    /\ pc = "score" /\ exc = "none"
    /\ IdleMain /\ IdleClassify /\ IdleBatch
    /\ row \in Rows
    /\ who_limits \in LimitTables
    /\ result = NotCalled /\ base = NotCalled

Score ==
    /\ pc = "score"
    /\ result' = calculate_simple_aqi(row, who_limits)
    /\ pc' = "scored"
    /\ UNCHANGED <<mainVars, classifyVars, batchVars, row, base, exc,
                   who_limits>>

\* the score of the aggregate that differs from row in one covered
\* pollutant, whose concentration is larger
ScoreIncreased ==
    /\ pc = "scored"
    /\ \E p \in Covered \cap DOMAIN row : \E c \in Conc :
          /\ IsNum(row[p]) /\ Gt(c, row[p])
          /\ row' = [row EXCEPT ![p] = c]
    /\ base' = result
    /\ result' = calculate_simple_aqi(row', who_limits)
    /\ pc' = "rescored"
    /\ UNCHANGED <<mainVars, classifyVars, batchVars, exc, who_limits>>

NextScore == Score \/ ScoreIncreased

SpecScore == InitScore /\ [][NextScore]_vars

----------------------------------------------------------------------------
(* load_data *)

\* DataFrame.fillna(method='bfill'): the next valid value carried backward
BFillCol(col) ==
    LET n == Len(col)
        F[i \in 0..n] ==
            IF i = 0 THEN <<>>
            ELSE LET k == n - i + 1
                     next == IF i = 1 THEN NaN ELSE F[i - 1][1]
                 IN  <<IF IsNaN(col[k]) THEN next ELSE col[k]>> \o F[i - 1]
    IN  F[n]

\* DataFrame.fillna(method='ffill') on one column: the last valid value is
\* carried forward row by row; nothing is carried into leading gaps
FFillCol(col) ==
    LET F[i \in 0..Len(col)] ==
            IF i = 0 THEN <<>>
            ELSE LET last == IF i = 1 THEN NaN ELSE F[i - 1][i - 1]
                 IN  Append(F[i - 1], IF IsNaN(col[i]) THEN last ELSE col[i])
    IN  F[Len(col)]

\* fillna applies to every column of the frame
FFillFrame(cols) == [c \in DOMAIN cols |-> FFillCol(cols[c])]

IsLeap(y) == (y % 4 = 0 /\ y % 100 # 0) \/ y % 400 = 0

DaysInMonth(y, m) ==
    IF m = 2 THEN (IF IsLeap(y) THEN 29 ELSE 28)
    ELSE IF m \in {4, 6, 9, 11} THEN 30
    ELSE 31

\* pd.to_datetime on year/month/day columns: the three are assembled as the
\* integer year * 10000 + month * 100 + day, which is then parsed with the
\* format %Y%m%d
Assembled(y, m, d) == y * 10000 + m * 100 + d
ParsedYear(v) == v \div 10000
ParsedMonth(v) == (v \div 100) % 100
ParsedDay(v) == v % 100

ParsesAsDate(v) ==
    /\ v >= 10000000 /\ v <= 99999999
    /\ ParsedMonth(v) \in 1..12
    /\ ParsedDay(v) \in 1..DaysInMonth(ParsedYear(v), ParsedMonth(v))

\* the datetime of row i (the hour column is added as a timedelta)
DatetimeOf(cols, i) ==
    LET v == Assembled(cols["year"][i].n, cols["month"][i].n, cols["day"][i].n)
    IN  [Y |-> ParsedYear(v), M |-> ParsedMonth(v), D |-> ParsedDay(v),
         h |-> cols["hour"][i].n]

RowParses(cols, i) ==
    ParsesAsDate(Assembled(cols["year"][i].n, cols["month"][i].n,
                           cols["day"][i].n))

\* pd.cut(month, bins=[0, 3, 6, 9, 12], labels=..., include_lowest=True)
Bins == <<0, 3, 6, 9, 12>>
Labels == <<"Winter", "Spring", "Summer", "Fall">>

\* right=False: bins closed on the left, open on the right
CutRightOpen(x) ==
    LET In(i) == /\ IsNum(x)
                 /\ Bins[i] * x.d <= x.n
                 /\ x.n < Bins[i + 1] * x.d
    IN  IF \E i \in 1..Len(Labels) : In(i)
        THEN Labels[CHOOSE i \in 1..Len(Labels) : In(i)]
        ELSE "NaN"

\* bins are open on the left and closed on the right; include_lowest closes
\* the first bin on the left; a value in no bin gets the missing label
Cut(x) ==
    LET In(i) == /\ IsNum(x)
                 /\ \/ Bins[i] * x.d < x.n
                    \/ (i = 1 /\ Bins[1] * x.d = x.n)
                 /\ x.n <= Bins[i + 1] * x.d
    IN  IF \E i \in 1..Len(Labels) : In(i)
        THEN Labels[CHOOSE i \in 1..Len(Labels) : In(i)]
        ELSE "NaN"

NRows(cols) == Len(cols["month"])

\* line 19: pd.read_csv
ReadCsv ==
    /\ pc = "read_csv"
    /\ IF csv.exists
       THEN /\ tiantan_df' = csv
            /\ pc' = "fillna"
            /\ exc' = exc
       ELSE /\ exc' = "FileNotFoundError"
            /\ pc' = "except"
            /\ tiantan_df' = tiantan_df
    /\ UNCHANGED <<selected_page, csv, data, calls, shown, scoreVars,
                   classifyVars, batchVars, who_limits>>

\* line 22: tiantan_df.fillna(method='ffill', inplace=True)
FillNa ==
    /\ pc = "fillna"
    /\ tiantan_df' = [tiantan_df EXCEPT !.cols = FFillFrame(@)]
    /\ pc' = "to_datetime"
    /\ UNCHANGED <<selected_page, csv, data, calls, shown, exc, scoreVars,
                   classifyVars, batchVars, who_limits>>

\* line 25: tiantan_df['datetime'] = pd.to_datetime(...), errors='raise'
ToDatetime ==
    /\ pc = "to_datetime"
    /\ LET cols == tiantan_df.cols
       IN  IF \A i \in 1..NRows(cols) : RowParses(cols, i)
           THEN /\ tiantan_df' =
                     [tiantan_df EXCEPT !.cols = @ @@ ("datetime" :>
                         [i \in 1..NRows(cols) |-> DatetimeOf(cols, i)])]
                /\ pc' = "cut"
                /\ exc' = exc
           ELSE /\ exc' = "ValueError"
                /\ pc' = "except"
                /\ tiantan_df' = tiantan_df
    /\ UNCHANGED <<selected_page, csv, data, calls, shown, scoreVars,
                   classifyVars, batchVars, who_limits>>

\* lines 28-33: tiantan_df['season'] = pd.cut(tiantan_df['month'], ...)
CutSeason ==
    /\ pc = "cut"
    /\ LET cols == tiantan_df.cols
       IN  tiantan_df' =
               [tiantan_df EXCEPT !.cols = @ @@ ("season" :>
                   [i \in 1..NRows(cols) |-> Cut(cols["month"][i])])]
    /\ pc' = "return"
    /\ UNCHANGED <<selected_page, csv, data, calls, shown, exc, scoreVars,
                   classifyVars, batchVars, who_limits>>

\* line 40: return tiantan_df (the day_of_week and day_name columns of
\* lines 36-38 are not part of the model)
ReturnData ==
    /\ pc = "return"
    /\ data' = tiantan_df
    /\ pc' = "loaded"
    /\ UNCHANGED <<selected_page, csv, tiantan_df, calls, shown, exc,
                   scoreVars, classifyVars, batchVars, who_limits>>

\* the CSV file: the rows are the first hours of one day; year, month, day
\* and hour have no missing cells, the sensor columns may; files of more
\* than one row hold the first day of their month
MonthVals == (0..MaxMonth) \cup {101}
DayVals == {1, 31, 101}
Pm25Cells == {NaN, Num(25, 1), Num(50, 1)}
TempCells == {NaN, Num(10, 1)}

CsvFile(n, m, d, pm, temp) ==
    [exists |-> TRUE,
     cols |-> [c \in {"year", "month", "day", "hour", "PM2.5", "TEMP"} |->
                 CASE c = "year" -> [i \in 1..n |-> Num(2013, 1)]
                   [] c = "month" -> [i \in 1..n |-> Num(m, 1)]
                   [] c = "day" -> [i \in 1..n |-> Num(d, 1)]
                   [] c = "hour" -> [i \in 1..n |-> Num(i - 1, 1)]
                   [] c = "PM2.5" -> pm
                   [] c = "TEMP" -> temp]]

CsvFiles(maxRows) ==
    UNION {{CsvFile(n, m, d, pm, temp) :
                m \in MonthVals, d \in (IF n = 1 THEN DayVals ELSE {1}),
                pm \in [1..n -> Pm25Cells], temp \in [1..n -> TempCells]}
             : n \in 1..maxRows}

InitLoad ==
    /\ pc = "read_csv" /\ exc = "none" /\ who_limits = WhoLimits
    /\ IdleScore /\ IdleClassify /\ IdleBatch
    /\ selected_page = "none"
    /\ csv \in CsvFiles(MaxRows) \cup {NoFile}
    /\ tiantan_df = NoFrame /\ data = NoFrame
    /\ calls = <<>> /\ shown = <<>>

NextLoad == ReadCsv \/ FillNa \/ ToDatetime \/ CutSeason \/ ReturnData

SpecLoad == InitLoad /\ [][NextLoad]_vars

----------------------------------------------------------------------------
(* main *)

pages == <<"Pendahuluan",
           "Q1: Variasi Polusi per Musim",
           "Q2: Hubungan Cuaca & Kualitas Udara",
           "Q3: Pola Polusi Harian & Jam",
           "Q4: Tren Kualitas Udara 2013-2017">>

\* the last branch calling the view of the branch before it
ViewForCopied(page) ==
    IF page = pages[1] THEN "show_introduction"
    ELSE IF page = pages[2] THEN "show_seasonal_variation"
    ELSE IF page = pages[3] THEN "show_weather_relationship"
    ELSE IF page = pages[4] THEN "show_time_patterns"
    ELSE IF page = pages[5] THEN "show_time_patterns"
    ELSE "none"

\* lines 99-108: the if/elif chain on selected_page
ViewFor(page) ==
    IF page = pages[1] THEN "show_introduction"
    ELSE IF page = pages[2] THEN "show_seasonal_variation"
    ELSE IF page = pages[3] THEN "show_weather_relationship"
    ELSE IF page = pages[4] THEN "show_time_patterns"
    ELSE IF page = pages[5] THEN "show_yearly_trends"
    ELSE "none"

\* exceptions a view can raise (all subclasses of Exception)
ViewExceptions == {"KeyError", "ValueError"}

\* st.error and st.info of the except clause
ErrorMessage(e) == <<"st.error", "Terjadi kesalahan dalam memuat data", e>>
InfoMessage == <<"st.info", "Pastikan file CSV tersedia">>

\* line 83: data = load_data()
CallLoadData ==
    /\ pc = "main"
    /\ calls' = Append(calls, "load_data")
    /\ pc' = "read_csv"
    /\ UNCHANGED <<selected_page, csv, tiantan_df, data, shown, exc,
                   scoreVars, classifyVars, batchVars, who_limits>>

\* lines 99-108: the view of the selected page is called; it returns or
\* raises
Dispatch ==
    /\ pc = "loaded"
    /\ IF ViewFor(selected_page) = "none"
       THEN calls' = calls /\ exc' = exc /\ pc' = "done"
       ELSE /\ calls' = Append(calls, ViewFor(selected_page))
            /\ \/ exc' = exc /\ pc' = "done"
               \/ \E e \in ViewExceptions : exc' = e /\ pc' = "except"
    /\ UNCHANGED <<selected_page, csv, tiantan_df, data, shown, scoreVars,
                   classifyVars, batchVars, who_limits>>

\* lines 110-112: except Exception as e
Except ==
    /\ pc = "except"
    /\ shown' = shown \o <<ErrorMessage(exc), InfoMessage>>
    /\ pc' = "done"
    /\ UNCHANGED <<selected_page, csv, tiantan_df, data, calls, exc,
                   scoreVars, classifyVars, batchVars, who_limits>>

\* line 79: the radio widget returns one of pages; the file has one row
Init ==
    /\ pc = "main" /\ exc = "none" /\ who_limits = WhoLimits
    /\ IdleScore /\ IdleClassify /\ IdleBatch
    /\ selected_page \in {pages[i] : i \in 1..Len(pages)}
    /\ csv \in CsvFiles(1) \cup {NoFile}
    /\ tiantan_df = NoFrame /\ data = NoFrame
    /\ calls = <<>> /\ shown = <<>>

Next ==
    \/ CallLoadData
    \/ ReadCsv
    \/ FillNa
    \/ ToDatetime
    \/ CutSeason
    \/ ReturnData
    \/ Dispatch
    \/ Except

Spec == Init /\ [][Next]_vars

----------------------------------------------------------------------------
(* show_yearly_trends, lines 429-433: the AQI of every day *)

Column(vals) == [assigned |-> TRUE, vals |-> vals]

\* the exception swallowed and the values collected so far assigned
AqiColumnKeepPartial(collected) == Column(collected)

\* an exception raised inside DataFrame.apply leaves the function before
\* the assignment to daily_data['AQI']: the column stays unassigned
AqiColumnOnError(collected) == NoColumn

\* line 432: one row handed to the lambda by DataFrame.apply(axis=1)
ApplyRow ==
    /\ pc = "apply"
    /\ idx <= Len(daily_data)
    /\ LET r == calculate_simple_aqi(daily_data[idx], who_limits)
       IN  IF r.exc = "none"
           THEN /\ acc' = Append(acc, r.val)
                /\ idx' = idx + 1
                /\ UNCHANGED <<pc, exc, AQI>>
           ELSE /\ exc' = r.exc
                /\ pc' = "raised"
                /\ AQI' = AqiColumnOnError(acc)
                /\ UNCHANGED <<acc, idx>>
    /\ UNCHANGED <<mainVars, scoreVars, classifyVars, daily_data,
                   AQI_Category, exceeding_days, who_limits>>

\* line 432: daily_data['AQI'] = the values apply returns
AssignAQI ==
    /\ pc = "apply"
    /\ idx > Len(daily_data)
    /\ AQI' = Column(acc)
    /\ pc' = "classify"
    /\ UNCHANGED <<mainVars, scoreVars, classifyVars, daily_data, idx, acc,
                   AQI_Category, exceeding_days, exc, who_limits>>

\* line 433: daily_data['AQI_Category'] = daily_data['AQI'].apply(classify_aqi)
ClassifyColumn ==
    /\ pc = "classify"
    /\ AQI_Category' =
          Column([i \in 1..Len(AQI.vals) |-> classify_aqi(AQI.vals[i])])
    /\ pc' = "scored_all"
    /\ UNCHANGED <<mainVars, scoreVars, classifyVars, daily_data, idx, acc,
                   AQI, exceeding_days, exc, who_limits>>

\* the rows of a frame share its columns; the frame has every limit column
\* or lacks one of the columns calculate_simple_aqi reads
BatchConc == {Num(MaxConc * 25, 1), NaN}
BatchColumns == {LimitKeys} \cup {LimitKeys \ {p} : p \in Covered}
BatchRows(cols) ==
    {r \in [cols -> BatchConc \cup {Num(0, 1)}] :
        \A p \in cols : IF p \in Covered THEN r[p] \in BatchConc
                         ELSE r[p] = Num(0, 1)}
BatchLimits ==
    {WhoLimits} \cup {[q \in LimitKeys \ {p} |-> WhoLimits[q]] : p \in Covered}

InitBatch ==
    /\ pc = "apply" /\ exc = "none"
    /\ IdleMain /\ IdleScore /\ IdleClassify
    /\ \E cols \in BatchColumns : \E n \in 1..MaxDays :
          daily_data \in [1..n -> BatchRows(cols)]
    /\ who_limits \in BatchLimits
    /\ idx = 1 /\ acc = <<>>
    /\ AQI = NoColumn /\ AQI_Category = NoColumn
    /\ exceeding_days = NoCounts

NextBatch == ApplyRow \/ AssignAQI \/ ClassifyColumn

SpecBatch == InitBatch /\ [][NextBatch]_vars

----------------------------------------------------------------------------
(* show_yearly_trends, lines 462-468: the days above each limit *)

\* >= written for >
ExceedsOrEqual(mean, limit) == Le(Num(limit, 1), mean)

\* line 465: daily_data[pollutant] > limit, false for a missing mean
Exceeds(mean, limit) == Gt(mean, Num(limit, 1))

\* lines 463-468: for every key of who_limits, the rows selected by the
\* mask daily_data[pollutant] > limit (the yearly percentages are computed
\* from the size of this selection); a column the frame lacks raises
CountExceeding ==
    /\ pc = "scored_all"
    /\ IF \E p \in DOMAIN who_limits : \E i \in 1..Len(daily_data) :
              p \notin DOMAIN daily_data[i]
       THEN /\ exc' = "KeyError"
            /\ pc' = "raised"
            /\ exceeding_days' = exceeding_days
       ELSE /\ exceeding_days' =
                 [p \in DOMAIN who_limits |->
                     {i \in 1..Len(daily_data) :
                         Exceeds(daily_data[i][p], who_limits[p])}]
            /\ pc' = "counted"
            /\ exc' = exc
    /\ UNCHANGED <<mainVars, scoreVars, classifyVars, daily_data, idx, acc,
                   AQI, AQI_Category, who_limits>>

\* daily means at the limit and just above it; the PM2.5 mean and the SO2
\* and O3 columns may also be missing or absent
MeansOf(p) ==
    IF p \in Covered
    THEN {Num(WhoLimits[p], 1), Num(WhoLimits[p] + 1, 1)}
            \cup (IF p = "PM2.5" THEN {NaN} ELSE {})
    ELSE IF p = "SO2" THEN {Num(0, 1), Num(WhoLimits[p] + 1, 1)}
    ELSE {Num(0, 1)}

ExceedColumns == {LimitKeys, LimitKeys \ {"O3"}}
ExceedRows(cols) ==
    {r \in [cols -> UNION {MeansOf(p) : p \in LimitKeys}] :
        \A p \in cols : r[p] \in MeansOf(p)}

InitExceed ==
    /\ pc = "apply" /\ exc = "none"
    /\ IdleMain /\ IdleScore /\ IdleClassify
    /\ \E cols \in ExceedColumns : \E n \in 1..MaxDays :
          daily_data \in [1..n -> ExceedRows(cols)]
    /\ who_limits = WhoLimits
    /\ idx = 1 /\ acc = <<>>
    /\ AQI = NoColumn /\ AQI_Category = NoColumn
    /\ exceeding_days = NoCounts

NextExceed == ApplyRow \/ AssignAQI \/ ClassifyColumn \/ CountExceeding

SpecExceed == InitExceed /\ [][NextExceed]_vars

----------------------------------------------------------------------------
(* Claims about classify_aqi (SpecClassify) *)

\* the value Resolution/Resolution = 1 and its successor on the grid
One == Num(Resolution, Resolution)
JustAboveOne == Num(Resolution + 1, Resolution)

\* C1: classify_aqi returns exactly one of the five categories for every
\* value, and for a number v = n/d the category is Good when v <= 1,
\* Moderate when 1 < v <= 2, Unhealthy for Sensitive Groups when
\* 2 < v <= 3, Unhealthy when 3 < v <= 4 and Very Unhealthy when v > 4;
\* v = 1 is Good, v = 2 is Moderate, the least value above 1 is Moderate.
C1_ClassifyTotalPartition ==
    pc = "classified" =>
        /\ category \in Categories
        /\ IsNum(aqi) =>
              /\ (aqi.n <= aqi.d) => category = "Good"
              /\ (aqi.n > aqi.d /\ aqi.n <= 2 * aqi.d) => category = "Moderate"
              /\ (aqi.n > 2 * aqi.d /\ aqi.n <= 3 * aqi.d)
                    => category = "Unhealthy for Sensitive Groups"
              /\ (aqi.n > 3 * aqi.d /\ aqi.n <= 4 * aqi.d)
                    => category = "Unhealthy"
              /\ (aqi.n > 4 * aqi.d) => category = "Very Unhealthy"
        /\ aqi = PosInf => category = "Very Unhealthy"
        /\ aqi = NegInf => category = "Good"
        /\ aqi = One => category = "Good"
        /\ aqi = Num(2 * Resolution, Resolution) => category = "Moderate"
        /\ aqi = JustAboveOne => category = "Moderate"

\* the least grid value above 1 has been classified as Moderate
C1_Witness ==
    /\ pc = "classified"
    /\ aqi = JustAboveOne
    /\ category = "Moderate"

----------------------------------------------------------------------------
(* Claims about calculate_simple_aqi (SpecScore) *)

Ratio(p) == Div(row[p], who_limits[p])

\* v is the maximum of the ratios of the pollutants in keys
IsMaxOver(v, keys) ==
    /\ \A p \in keys : Le(Ratio(p), v)
    /\ \E p \in keys : Eq(Ratio(p), v)

PositiveLimits == \A p \in DOMAIN who_limits : who_limits[p] > 0

ScoredOk == pc = "scored" /\ result.exc = "none"

\* C2 as stated: with the limits table of main and an aggregate that has
\* a resolved mean for each of its five keys, the AQI value is the maximum
\* of the five ratios aggregate[p] / limits[p].
C2_MaxOverAllLimitKeys ==
    (/\ ScoredOk
     /\ who_limits = WhoLimits
     /\ DOMAIN row = LimitKeys
     /\ \A p \in LimitKeys : IsNum(row[p]))
        => IsMaxOver(result.val, LimitKeys)

\* C2 amended: the AQI value is the maximum of the three ratios of PM2.5,
\* PM10 and NO2 (means resolved, limits non-zero); the SO2 and O3 entries
\* of the limits table take no part.
C2_MaxOverCovered ==
    (/\ ScoredOk
     /\ \A p \in Covered : IsNum(row[p]) /\ who_limits[p] # 0)
        => IsMaxOver(result.val, Covered)

\* a score where the SO2 ratio is above the returned maximum of the three
C2_Witness ==
    /\ ScoredOk
    /\ who_limits = WhoLimits
    /\ DOMAIN row = LimitKeys
    /\ \A p \in Covered : IsNum(row[p])
    /\ Eq(result.val, Ratio("NO2"))
    /\ Gt(Ratio("NO2"), Ratio("PM2.5")) /\ Gt(Ratio("NO2"), Ratio("PM10"))
    /\ Gt(Ratio("SO2"), result.val)

\* C5 as stated: scoring fails whenever a limit of the table is zero or
\* negative.
C5_NonPositiveLimitFails ==
    (pc = "scored" /\ \E p \in DOMAIN who_limits : who_limits[p] <= 0)
        => result.exc # "none"

C8_Monotone ==
    (/\ pc = "rescored"
     /\ PositiveLimits
     /\ base.exc = "none" /\ result.exc = "none"
     /\ ~IsNaN(base.val))
        => Le(base.val, result.val)

\* a raised concentration has strictly raised the AQI value
C8_Witness ==
    /\ pc = "rescored"
    /\ PositiveLimits
    /\ base.exc = "none" /\ result.exc = "none"
    /\ Gt(result.val, base.val)

----------------------------------------------------------------------------
(* Claims about load_data (SpecLoad) *)

\* the season of a valid month, as the specification tabulates it
SeasonTable(m) ==
    CASE m \in {1, 2, 3} -> "Winter"
      [] m \in {4, 5, 6} -> "Spring"
      [] m \in {7, 8, 9} -> "Summer"
      [] m \in {10, 11, 12} -> "Fall"

RawMonth(i) == csv.cols["month"][i].n

\* the season column has been assigned
SeasonAssigned == pc \in {"return", "loaded"}

\* C3: every row whose month is in 1..12 gets exactly the season of the
\* table (Winter 1..3, Spring 4..6, Summer 7..9, Fall 10..12), whatever
\* its day and its sensor cells are.
C3_SeasonOfValidMonth ==
    SeasonAssigned =>
        \A i \in 1..NRows(csv.cols) :
            RawMonth(i) \in 1..12 =>
                tiantan_df.cols["season"][i] = SeasonTable(RawMonth(i))

\* a December row has been labelled Fall and returned
C3_Witness ==
    /\ pc = "loaded"
    /\ RawMonth(1) = 12
    /\ data.cols["season"][1] = "Fall"

\* C4 as stated: for a month outside 1..12 load_data fails and no season
\* label is produced, so a frame with a season column has valid months only.
C4_InvalidMonthFails ==
    SeasonAssigned =>
        \A i \in 1..NRows(csv.cols) : RawMonth(i) \in 1..12

\* fillna has run on the frame
Filled ==
    \/ pc \in {"to_datetime", "cut", "return", "loaded"}
    \/ pc = "except" /\ exc = "ValueError"

\* rows before i of a column of the file that hold a value
ValidBefore(c, i) == {j \in 1..(i - 1) : ~IsNaN(csv.cols[c][j])}

Nearest(c, i) == CHOOSE j \in ValidBefore(c, i) :
                    \A k \in ValidBefore(c, i) : k <= j

\* C7: after the forward fill, in every column, a cell that was present is
\* unchanged, a cell that was missing holds the value of the nearest
\* preceding present cell of its column, and a missing cell with no
\* present cell before it in its column is still missing.
C7_ForwardFill ==
    Filled =>
        \A c \in DOMAIN csv.cols : \A i \in 1..NRows(csv.cols) :
            LET raw == csv.cols[c][i]
                out == tiantan_df.cols[c][i]
            IN  /\ ~IsNaN(raw) => out = raw
                /\ (IsNaN(raw) /\ ValidBefore(c, i) # {})
                      => out = csv.cols[c][Nearest(c, i)]
                /\ (IsNaN(raw) /\ ValidBefore(c, i) = {}) => IsNaN(out)

\* a leading gap left missing and a later gap filled in one column, while
\* the other column is filled from its own first row
C7_Witness ==
    /\ pc = "to_datetime"
    /\ csv.cols["PM2.5"] = <<NaN, Num(25, 1), NaN>>
    /\ tiantan_df.cols["PM2.5"] = <<NaN, Num(25, 1), Num(25, 1)>>
    /\ csv.cols["TEMP"] = <<Num(10, 1), NaN, NaN>>
    /\ tiantan_df.cols["TEMP"] = <<Num(10, 1), Num(10, 1), Num(10, 1)>>

----------------------------------------------------------------------------
(* Claims about main (Spec) *)

\* the view function that belongs to each page
ExpectedView(page) ==
    CASE page = "Pendahuluan" -> "show_introduction"
      [] page = "Q1: Variasi Polusi per Musim" -> "show_seasonal_variation"
      [] page = "Q2: Hubungan Cuaca & Kualitas Udara"
            -> "show_weather_relationship"
      [] page = "Q3: Pola Polusi Harian & Jam" -> "show_time_patterns"
      [] page = "Q4: Tren Kualitas Udara 2013-2017" -> "show_yearly_trends"

LoadDataRaised == exc \in {"FileNotFoundError", "ValueError"} /\ Len(calls) = 1

\* C10: main calls load_data first and then at most the one view of the
\* selected page; when main is done it has either called exactly
\* load_data and that view without an exception and shown nothing, or an
\* exception was raised by load_data (no view called) or by that view
\* (no further view called), and main has shown the error message with
\* the exception and the hint about the CSV file, and has returned.
C10_Containment ==
    /\ Len(calls) <= 2
    /\ Len(calls) >= 1 => calls[1] = "load_data"
    /\ Len(calls) = 2 => calls[2] = ExpectedView(selected_page)
    /\ pc = "except" => exc # "none" /\ shown = <<>>
    /\ pc = "done" =>
          \/ /\ exc = "none"
             /\ calls = <<"load_data", ExpectedView(selected_page)>>
             /\ shown = <<>>
          \/ /\ exc # "none"
             /\ shown = <<ErrorMessage(exc), InfoMessage>>
             /\ data.exists => Len(calls) = 2
             /\ ~data.exists => calls = <<"load_data">>

\* the view of the last page raised and main showed the two messages
C10_Witness ==
    /\ pc = "done"
    /\ selected_page = "Q4: Tren Kualitas Udara 2013-2017"
    /\ calls = <<"load_data", "show_yearly_trends">>
    /\ exc = "KeyError"
    /\ shown = <<ErrorMessage("KeyError"), InfoMessage>>

----------------------------------------------------------------------------
(* Claims about the batch scoring of show_yearly_trends (SpecBatch) *)

\* C9: when the score of an element fails, the batch ends with that
\* element's error and neither the AQI column nor the category column is
\* assigned; an assigned column holds a value for every element.
C9_AllOrNothing ==
    /\ pc = "raised" =>
          /\ exc = calculate_simple_aqi(daily_data[idx], who_limits).exc
          /\ exc # "none"
          /\ ~AQI.assigned /\ ~AQI_Category.assigned
    /\ AQI.assigned =>
          /\ exc = "none"
          /\ Len(AQI.vals) = Len(daily_data)
    /\ AQI_Category.assigned =>
          /\ AQI.assigned
          /\ Len(AQI_Category.vals) = Len(daily_data)

\* a batch of two days has failed with KeyError and stored nothing
C9_Witness ==
    /\ pc = "raised"
    /\ Len(daily_data) = 2
    /\ exc = "KeyError"
    /\ ~AQI.assigned /\ ~AQI_Category.assigned

----------------------------------------------------------------------------
(* Claims about the two exceedance measures (SpecExceed) *)

Resolved(r) == \A p \in Covered : IsNum(r[p])

CountedFor(i) == {p \in Covered : i \in exceeding_days[p]}

\* C11: once the days above the limits are counted, every day whose PM2.5,
\* PM10 and NO2 means are resolved has the category Good if and only if
\* it is counted as exceeding for none of PM2.5, PM10 and NO2, and it is
\* counted for p exactly when its mean of p is above the limit of p.
C11_GoodIffNoneExceeds ==
    pc = "counted" =>
        \A i \in 1..Len(daily_data) :
            Resolved(daily_data[i]) =>
                /\ (AQI_Category.vals[i] = "Good") <=> (CountedFor(i) = {})
                /\ \A p \in Covered :
                      (i \in exceeding_days[p]) <=>
                          (daily_data[i][p].n >
                               WhoLimits[p] * daily_data[i][p].d)

\* one day with every covered mean at its limit is Good and counted for
\* none of the three (though counted for SO2), another day is above the
\* NO2 limit only and is not Good
C11_Witness ==
    /\ pc = "counted"
    /\ Len(daily_data) = 2
    /\ Resolved(daily_data[1]) /\ Resolved(daily_data[2])
    /\ AQI_Category.vals[1] = "Good"
    /\ CountedFor(1) = {}
    /\ 1 \in exceeding_days["SO2"]
    /\ AQI_Category.vals[2] = "Moderate"
    /\ CountedFor(2) = {"NO2"}

====
